---- MODULE Spec2Model ----
(***************************************************************************)
(* A model of site_scraper.py: the Ray actor RateLimiter, the remote task  *)
(* scrape_page, filter_links, sanitize_filename, save_page, process_urls   *)
(* and crawl_website.                                                      *)
(*                                                                         *)
(* Text.  A Python string is modelled as a sequence of tokens.  A token is *)
(* either one of the delimiter characters the code or urllib looks for     *)
(* ( : / ? # ; \ * " < > | _ ) or a "word": a maximal run of other         *)
(* characters ("http", "docs.example.com", "deploy-cloud", ".md").  All    *)
(* string operations of the code (urlparse, urljoin, str.split, re.sub,    *)
(* os.path.join, f-strings) act on delimiters only, so they are computed   *)
(* on token sequences exactly as they are computed on characters.          *)
(***************************************************************************)
EXTENDS Integers, Sequences, FiniteSets, TLC

VARIABLES
    mode,            \* which entry point runs: "crawl", "dispatch", "save", "limiter"
    pc,              \* position of the driver (crawl_website / process_urls / save_page caller)
    base_url,        \* crawl_website argument
    max_depth,       \* crawl_website argument
    max_concurrency, \* crawl_website / process_urls argument
    visited,         \* crawl_website local: set of URLs
    current_level,   \* crawl_website local: sequence of URLs
    next_level,      \* crawl_website local: sequence of URLs
    depth,           \* crawl_website local
    urls,            \* process_urls argument (urls_to_scrape)
    ui,              \* process_urls: index of the next url of the for loop
    tasks,           \* process_urls local: sequence of outstanding task references
    results,         \* process_urls local / crawl_website local: sequence of PageResult
    ri,              \* crawl_website: index of the next result of the for loop
    site,            \* the remote site as observed so far: URL -> response
    fs,              \* the file system under output_dir: file path -> content
    arg,             \* arguments of a direct call of save_page
    launched,        \* history: the URLs scrape_page.remote was called with, in order
    saved,           \* history: the (url, markdown) save_page was called with, in order
    frontiers,       \* history: current_level at the start of each level, by depth
    clock,           \* time.time()
    last_request,    \* RateLimiter.last_request
    delay,           \* RateLimiter.delay
    actor,           \* the RateLimiter actor: the call it executes, if any
    worker,          \* the position of each scrape_page task that uses the limiter
    grants,          \* history: the time of each return of acquire, in order
    requests,        \* history: the time each requests.get started
    run,             \* which run of crawl_website this is: 1, or 2 for a rerun
    first_fs         \* history: the file system as the first run left it

vars == << mode, pc, base_url, max_depth, max_concurrency, visited, current_level,
           next_level, depth, urls, ui, tasks, results, ri, site, fs, arg,
           launched, saved, frontiers, clock, last_request, delay, actor, worker,
           grants, requests,
           run, first_fs >>

----------------------------------------------------------------------------
(* Sequences of tokens *)

Min(S) == CHOOSE x \in S : \A y \in S : x <= y

Max(S) == CHOOSE x \in S : \A y \in S : x >= y

Range(s) == { s[i] : i \in 1..Len(s) }

\* str.find restricted to a set of single-character delimiters: the first
\* index >= from holding one of them, 0 when there is none.
Find(s, D, from) ==
    LET I == { i \in from..Len(s) : s[i] \in D }
    IN  IF I = {} THEN 0 ELSE Min(I)

\* str.rfind('/')
RFind(s, D) ==
    LET I == { i \in 1..Len(s) : s[i] \in D }
    IN  IF I = {} THEN 0 ELSE Max(I)

\* s[n:]
Drop(s, n) == IF n >= Len(s) THEN << >> ELSE [ i \in 1..(Len(s) - n) |-> s[i + n] ]

\* s[:n]
Take(s, n) == [ i \in 1..(IF n < Len(s) THEN n ELSE Len(s)) |-> s[i] ]

RECURSIVE Split(_, _)
\* the pieces of s before and after its first d, at index i (0: no d in s)
split_at(s, d, i) ==
    IF i = 0 THEN << s >> ELSE << Take(s, i - 1) >> \o Split(Drop(s, i), d)

\* str.split(d): the pieces between the occurrences of d, empty pieces kept.
Split(s, d) == split_at(s, d, Find(s, {d}, 1))

\* s.split(d, 1) as head and tail, the delimiter at index i (0: none)
cut(s, i) ==
    IF i = 0 THEN [ head |-> s, tail |-> << >> ]
    ELSE [ head |-> Take(s, i - 1), tail |-> Drop(s, i) ]

RECURSIVE Join(_, _)
\* d.join(parts)
Join(parts, d) ==
    IF parts = << >> THEN << >>
    ELSE IF Len(parts) = 1 THEN parts[1]
    ELSE parts[1] \o << d >> \o Join(Tail(parts), d)

RECURSIVE DropEmpty(_)
\* [p for p in s if p]  /  filter(None, s)
DropEmpty(s) ==
    IF s = << >> THEN << >>
    ELSE (IF s[1] # << >> THEN << s[1] >> ELSE << >>) \o DropEmpty(Tail(s))

----------------------------------------------------------------------------
(* urllib.parse, as the code uses it *)

\* The characters urllib accepts in a scheme are letters, digits, + - and . ;
\* a word is such a run, a delimiter token is not.
Delimiters == { ":", "/", "?", "#", ";", "\\", "*", "\"", "<", ">", "|", "_", " " }

uses_relative == { "", "http", "https" }

uses_netloc == { "", "http", "https" }

\* urlsplit: the scheme is the word before a leading ':'
split_scheme(url, default) ==
    IF Len(url) >= 2 /\ url[2] = ":" /\ url[1] \notin Delimiters
    THEN [ scheme |-> url[1], rest |-> Drop(url, 2) ]
    ELSE [ scheme |-> default, rest |-> url ]

\* _splitnetloc(url, 2), the netloc ending before index nend (0: at the end)
netloc_cut(r, nend) ==
    IF nend = 0 THEN [ netloc |-> Drop(r, 2), rest |-> << >> ]
    ELSE [ netloc |-> Drop(Take(r, nend - 1), 2), rest |-> Drop(r, nend - 1) ]

\* urlsplit: after '//' the netloc runs to the next '/', '?' or '#'
split_netloc(r) ==
    IF Len(r) >= 2 /\ r[1] = "/" /\ r[2] = "/"
    THEN netloc_cut(r, Find(r, {"/", "?", "#"}, 3))
    ELSE [ netloc |-> << >>, rest |-> r ]

\* urlparse: _splitparams takes the parameters off the last path segment
parse_params(scheme, netloc, fragment, query, p) ==
    [ scheme |-> scheme, netloc |-> netloc, path |-> p.head,
      params |-> p.tail, query |-> query, fragment |-> fragment ]

\* urlsplit: the query follows the first '?'
parse_query(scheme, netloc, fragment, q) ==
    parse_params(scheme, netloc, fragment, q.tail,
                 cut(q.head, Find(q.head, {";"}, RFind(q.head, {"/"}) + 1)))

\* urlsplit: the fragment follows the first '#'
parse_fragment(scheme, netloc, f) ==
    parse_query(scheme, netloc, f.tail, cut(f.head, Find(f.head, {"?"}, 1)))

parse_netloc(scheme, n) ==
    parse_fragment(scheme, n.netloc, cut(n.rest, Find(n.rest, {"#"}, 1)))

parse_scheme(s) == parse_netloc(s.scheme, split_netloc(s.rest))

\* urllib.parse.urlparse(url, scheme=default): the six components.
urlparse_default(url, default) == parse_scheme(split_scheme(url, default))

urlparse(url) == urlparse_default(url, "")

add_netloc(scheme, netloc, u) ==
    IF netloc # << >>
       \/ (scheme # "" /\ scheme \in uses_netloc /\ Take(u, 2) # << "/", "/" >>)
    THEN << "/", "/" >> \o netloc
         \o (IF u # << >> /\ u[1] # "/" THEN << "/" >> ELSE << >>) \o u
    ELSE u

add_scheme(scheme, u) == IF scheme # "" THEN << scheme, ":" >> \o u ELSE u

add_suffix(u, query, fragment) ==
    u \o (IF query # << >> THEN << "?" >> \o query ELSE << >>)
      \o (IF fragment # << >> THEN << "#" >> \o fragment ELSE << >>)

\* urllib.parse.urlunparse
urlunparse(scheme, netloc, path, params, query, fragment) ==
    add_suffix(add_scheme(scheme,
                          add_netloc(scheme, netloc,
                                     IF params # << >> THEN path \o << ";" >> \o params
                                     ELSE path)),
               query, fragment)

RECURSIVE ResolveDots(_, _)
\* the "." and ".." loop of urljoin over the segments
ResolveDots(segments, resolved) ==
    IF segments = << >> THEN resolved
    ELSE IF segments[1] = << ".." >>
         THEN ResolveDots(Tail(segments),
                          IF resolved = << >> THEN << >>
                          ELSE Take(resolved, Len(resolved) - 1))
    ELSE IF segments[1] = << "." >> THEN ResolveDots(Tail(segments), resolved)
    ELSE ResolveDots(Tail(segments), Append(resolved, segments[1]))

\* urljoin: base_parts = bpath.split('/') without its last piece, unless empty
base_parts(bp) == IF bp[Len(bp)] # << >> THEN Take(bp, Len(bp) - 1) ELSE bp

\* urljoin: segments[1:-1] = filter(None, segments[1:-1])
filter_middle(all) ==
    IF Len(all) <= 2 THEN all
    ELSE << all[1] >> \o DropEmpty(Drop(Take(all, Len(all) - 1), 1)) \o << all[Len(all)] >>

\* urljoin: the segments of the joined path
merge_segments(bparts, ps, path) ==
    IF Take(path, 1) = << "/" >> THEN ps ELSE filter_middle(bparts \o ps)

path_or_root(p) == IF p = << >> THEN << "/" >> ELSE p

join_segments(u, netloc, segments) ==
    urlunparse(u.scheme, netloc,
               path_or_root(Join(ResolveDots(segments, << >>)
                                 \o (IF segments[Len(segments)] \in { << "." >>, << ".." >> }
                                     THEN << << >> >> ELSE << >>),
                                 "/")),
               u.params, u.query, u.fragment)

\* urljoin: the reference has no netloc of its own
join_path(b, u, netloc) ==
    IF u.path = << >> /\ u.params = << >>
    THEN urlunparse(u.scheme, netloc, b.path, b.params,
                    IF u.query = << >> THEN b.query ELSE u.query, u.fragment)
    ELSE join_segments(u, netloc,
                       merge_segments(base_parts(Split(b.path, "/")),
                                      Split(u.path, "/"), u.path))

\* urljoin, given both URLs parsed
join_parsed(b, u, url) ==
    IF u.scheme # b.scheme \/ u.scheme \notin uses_relative THEN url
    ELSE IF u.scheme \in uses_netloc /\ u.netloc # << >>
    THEN urlunparse(u.scheme, u.netloc, u.path, u.params, u.query, u.fragment)
    ELSE join_path(b, u, IF u.scheme \in uses_netloc THEN b.netloc ELSE u.netloc)

join_base(b, url) == join_parsed(b, urlparse_default(url, b.scheme), url)

\* urllib.parse.urljoin(base, url)
urljoin(base, url) ==
    IF base = << >> THEN url
    ELSE IF url = << >> THEN base
    ELSE join_base(urlparse(base), url)

----------------------------------------------------------------------------
(* filter_links, sanitize_filename, save_page *)

\* same_domain without the comparison of the netloc
same_domain_any(absolute, base_domain) == << absolute >>

\* lines 57-58: the absolute URL is kept when it is on the base domain
same_domain(absolute, base_domain) ==
    IF urlparse(absolute).netloc = base_domain THEN << absolute >> ELSE << >>

RECURSIVE filter_domain(_, _, _)
\* lines 55-58: the loop over the links
filter_domain(links, base, base_domain) ==
    IF links = << >> THEN << >>
    ELSE same_domain(urljoin(base, links[1]), base_domain)
         \o filter_domain(Tail(links), base, base_domain)

\* filter_links(links, base_url): every link is resolved against base_url and
\* kept when its netloc is the netloc of base_url.
filter_links(links, base) == filter_domain(links, base, urlparse(base).netloc)

\* the character class of re.sub(r'[\\/*?:"<>|]', "_", name)
UnsafeChars == { "\\", "/", "*", "?", ":", "\"", "<", ">", "|" }

sanitize_filename(name) ==
    [ i \in 1..Len(name) |-> IF name[i] \in UnsafeChars THEN "_" ELSE name[i] ]

RECURSIVE sanitize_all(_)
\* [sanitize_filename(part) for part in parts]
sanitize_all(parts) ==
    IF parts = << >> THEN << >>
    ELSE << sanitize_filename(parts[1]) >> \o sanitize_all(Tail(parts))

RECURSIVE path_join(_, _)
\* os.path.join(a, *p) of posixpath
path_join(a, p) ==
    IF p = << >> THEN a
    ELSE LET b == p[1]
         IN  path_join(IF Take(b, 1) = << "/" >> THEN b
                       ELSE IF a = << >> \/ a[Len(a)] = "/" THEN a \o b
                       ELSE a \o << "/" >> \o b,
                       Tail(p))

\* lines 89-95: the last path part, or the host when there is none
final_endpoint(path_parts, host) ==
    IF path_parts # << >> THEN path_parts[Len(path_parts)] ELSE host

\* dir_parts that keeps the last path part as a directory
dir_parts_all(path_parts) == path_parts

\* lines 89-95: the path parts before the last
dir_parts(path_parts) ==
    IF path_parts # << >> THEN Take(path_parts, Len(path_parts) - 1) ELSE << >>

\* lines 101-104
filename(endpoint, fragment) ==
    IF fragment # << >>
    THEN endpoint \o << "_" >> \o sanitize_filename(fragment) \o << ".md" >>
    ELSE endpoint \o << ".md" >>

\* lines 98-110, given the host and the path parts
save_parts(host, path_parts, fragment, url, markdown_content, output_dir) ==
    [ file_path |-> path_join(path_join(output_dir, << host >> \o dir_parts(path_parts)),
                              << filename(final_endpoint(path_parts, host), fragment) >>),
      content   |-> << "#", " " >> \o url \o << "\n\n" >> \o markdown_content ]

\* lines 82-87, given urlparse(url)
save_parsed(parsed, url, markdown_content, output_dir) ==
    save_parts(sanitize_filename(parsed.netloc),
               sanitize_all(DropEmpty(Split(parsed.path, "/"))),
               parsed.fragment, url, markdown_content, output_dir)

\* The file save_page(url, markdown_content, output_dir) writes: its path and
\* its content.
save_page(url, markdown_content, output_dir) ==
    save_parsed(urlparse(url), url, markdown_content, output_dir)

\* open(file_path, "w").write(content): an existing file is overwritten.
write_file(files, f) ==
    [ p \in DOMAIN files \cup { f.file_path } |->
        IF p = f.file_path THEN f.content ELSE files[p] ]

----------------------------------------------------------------------------
(* The inputs of the model *)

\* the largest --max_depth explored (the smallest is -1: the loop never runs)
MaxDepth == 2

\* the largest --max_concurrency explored (the smallest is 0)
MaxConcurrency == 3

\* the longest list handed to process_urls when it is called on its own
MaxUrls == 3

OutputDir == << "out" >>

Seed == << "http", ":", "/", "/", "h", "/", "a" >>

\* hrefs a page can hold: relative, absolute path, fragment only, other host,
\* relative with a query string
hrefB == << "b" >>
hrefC == << "/", "c" >>
hrefF == << "#", "f" >>
hrefSelf == << "http", ":", "/", "/", "h", "/", "a" >>
hrefOther == << "http", ":", "/", "/", "x", "/", "b" >>
hrefBQ == << "b", "?", "q" >>

\* the lists of hrefs a fetched page can hold
LinkLists ==
    { << >>,
      << hrefB, hrefOther >>,
      << hrefSelf, hrefC, hrefC >>,
      << hrefB, hrefF >>,
      << hrefB, hrefBQ >> }

\* What requests.get / raise_for_status / md / BeautifulSoup do with one URL:
\* "none" is a 2xx answer with the given links, anything else is the
\* exception raised inside the try block.
Errors == { "acquire", "timeout", "status", "network", "conversion" }

\* A non-2xx answer still has a body with links; the other failures have none.
Responses ==
    { [ error |-> "none", text |-> << "html" >>, links |-> l ] : l \in LinkLists }
    \cup { [ error |-> "status", text |-> << "html" >>, links |-> << hrefB, hrefF >> ] }
    \cup { [ error |-> e, text |-> << >>, links |-> << >> ] : e \in Errors \ { "status" } }

\* markdownify.md(text, heading_style="ATX")
md(text) == << "md" >> \o text

----------------------------------------------------------------------------
(* scrape_page *)

\* scrape_page whose except branch keeps what the response held
scrape_page_keeps(url, response) ==
    [ url |-> url, markdown |-> md(response.text), links |-> response.links ]

\* scrape_page(url, rate_limiter) when the try block ends as response says
scrape_page(url, response) ==
    IF response.error = "none"
    THEN [ url |-> url, markdown |-> md(response.text), links |-> response.links ]
    ELSE [ url |-> url, markdown |-> << >>, links |-> << >> ]

\* scrape_page.remote(url, rate_limiter): the reference to a running task
remote_task(url) == [ url |-> url, state |-> "running", result |-> << >> ]

RemoveAt(s, i) == [ j \in 1..(Len(s) - 1) |-> IF j < i THEN s[j] ELSE s[j + 1] ]

\* One scrape_page task runs to its return.  The site answers a URL the same
\* way every time it is asked within one run.
ScrapePage(i) ==
    /\ mode \in { "crawl", "dispatch" }
    /\ i \in 1..Len(tasks)
    /\ tasks[i].state = "running"
    /\ \E response \in Responses :
         /\ tasks[i].url \in DOMAIN site => site[tasks[i].url] = response
         /\ site' = [ u \in DOMAIN site \cup { tasks[i].url } |->
                        IF u = tasks[i].url THEN response ELSE site[u] ]
         /\ tasks' = [ tasks EXCEPT ![i] =
                         [ url |-> tasks[i].url, state |-> "done",
                           result |-> scrape_page(tasks[i].url, response) ] ]
    /\ UNCHANGED << mode, pc, base_url, max_depth, max_concurrency, visited,
                    current_level, next_level, depth, urls, ui, results, ri, fs, arg,
                    launched, saved, frontiers, clock, last_request, delay, actor,
                    worker, grants, requests,
                    run, first_fs >>

----------------------------------------------------------------------------
(* process_urls *)

\* where process_urls returns to
after_return == IF mode = "crawl" THEN "for_results" ELSE "returned"

\* at_capacity that takes a cap of 0 or less as no cap
at_capacity_positive(n, cap) == cap > 0 /\ n >= cap

\* at_capacity with > for >=
at_capacity_gt(n, cap) == n > cap

\* line 122: len(tasks) >= max_concurrency
at_capacity(n, cap) == n >= cap

\* collect_rest that collects the first of the remaining tasks only
collect_rest_first(rs, ts) == rs \o (IF ts = << >> THEN << >> ELSE << ts[1].result >>)

\* collect_rest that leaves the remaining tasks uncollected
collect_rest_none(rs, ts) == rs

\* line 126: results.extend(ray.get(tasks))
collect_rest(rs, ts) == rs \o [ i \in 1..Len(ts) |-> ts[i].result ]

\* lines 120-122: the next url of the for loop is launched
Launch ==
    /\ pc = "for_urls"
    /\ ui <= Len(urls)
    /\ tasks' = Append(tasks, remote_task(urls[ui]))
    /\ launched' = Append(launched, urls[ui])
    /\ ui' = ui + 1
    /\ pc' = IF at_capacity(Len(tasks'), max_concurrency) THEN "wait" ELSE "for_urls"
    /\ UNCHANGED << mode, base_url, max_depth, max_concurrency, visited,
                    current_level, next_level, depth, urls, results, ri, site, fs, arg,
                    saved, frontiers, clock, last_request, delay, actor,
                    worker, grants, requests,
                    run, first_fs >>

\* lines 123-124: ray.wait(tasks, num_returns=1) returns one finished task,
\* whichever it is, and its result is collected
WaitOne ==
    /\ pc = "wait"
    /\ \E i \in 1..Len(tasks) :
         /\ tasks[i].state = "done"
         /\ results' = Append(results, tasks[i].result)
         /\ tasks' = RemoveAt(tasks, i)
    /\ pc' = "for_urls"
    /\ UNCHANGED << mode, base_url, max_depth, max_concurrency, visited,
                    current_level, next_level, depth, urls, ui, ri, site, fs, arg,
                    launched, saved, frontiers, clock, last_request, delay, actor,
                    worker, grants, requests,
                    run, first_fs >>

\* lines 125-127: after the loop ray.get(tasks) waits for every remaining task
\* and returns their results in the order of the list; in a crawl line 142
\* (next_level = []) runs as process_urls returns
Drain ==
    /\ pc = "for_urls"
    /\ ui > Len(urls)
    /\ \A i \in 1..Len(tasks) : tasks[i].state = "done"
    /\ results' = collect_rest(results, tasks)
    /\ tasks' = << >>
    /\ ri' = 1
    /\ next_level' = IF mode = "crawl" THEN << >> ELSE next_level
    /\ pc' = after_return
    /\ UNCHANGED << mode, base_url, max_depth, max_concurrency, visited,
                    current_level, depth, urls, ui, site, fs, arg,
                    launched, saved, frontiers, clock, last_request, delay, actor,
                    worker, grants, requests,
                    run, first_fs >>

----------------------------------------------------------------------------
(* crawl_website *)

\* loop_condition without the bound on depth
loop_condition_nobound == current_level # << >>

\* loop_condition that runs one level too many
loop_condition_late == current_level # << >> /\ depth <= max_depth + 1

\* line 138: the condition of the while loop
loop_condition == current_level # << >> /\ depth <= max_depth

RECURSIVE urls_to_scrape(_, _)
\* line 140: [url for url in current_level if url not in visited]
urls_to_scrape(level, seen) ==
    IF level = << >> THEN << >>
    ELSE (IF level[1] \notin seen THEN << level[1] >> ELSE << >>)
         \o urls_to_scrape(Tail(level), seen)

RECURSIVE extend_level_nodedup(_, _, _, _)
\* extend_level without the test "link not in next_level"
extend_level_nodedup(next, new_links, seen, level) ==
    IF new_links = << >> THEN next
    ELSE extend_level_nodedup(IF new_links[1] \notin seen /\ new_links[1] \notin Range(level)
                              THEN Append(next, new_links[1]) ELSE next,
                              Tail(new_links), seen, level)

RECURSIVE extend_level_novisited(_, _, _, _)
\* extend_level without the test "link not in visited"
extend_level_novisited(next, new_links, seen, level) ==
    IF new_links = << >> THEN next
    ELSE extend_level_novisited(IF new_links[1] \notin Range(level)
                                   /\ new_links[1] \notin Range(next)
                                THEN Append(next, new_links[1]) ELSE next,
                                Tail(new_links), seen, level)

RECURSIVE extend_level_prepend(_, _, _, _)
\* extend_level that inserts at the front of next_level
extend_level_prepend(next, new_links, seen, level) ==
    IF new_links = << >> THEN next
    ELSE extend_level_prepend(IF new_links[1] \notin seen /\ new_links[1] \notin Range(level)
                                 /\ new_links[1] \notin Range(next)
                              THEN << new_links[1] >> \o next ELSE next,
                              Tail(new_links), seen, level)

RECURSIVE extend_level_break(_, _, _, _)
\* extend_level that leaves the loop at the first link already seen
extend_level_break(next, new_links, seen, level) ==
    IF new_links = << >> THEN next
    ELSE IF new_links[1] \in seen \/ new_links[1] \in Range(level)
            \/ new_links[1] \in Range(next)
         THEN next
         ELSE extend_level_break(Append(next, new_links[1]), Tail(new_links), seen, level)

RECURSIVE extend_level(_, _, _, _)
\* lines 150-152: the links not visited, not in the current level and not yet
\* staged are appended to next_level, in order
extend_level(next, new_links, seen, level) ==
    IF new_links = << >> THEN next
    ELSE LET link == new_links[1]
         IN  extend_level(IF link \notin seen /\ link \notin Range(level)
                             /\ link \notin Range(next)
                          THEN Append(next, link) ELSE next,
                          Tail(new_links), seen, level)

\* visited_add that forgets the URL
visited_add_skip(seen, url) == seen

\* line 147: visited.add(url)
visited_add(seen, url) == seen \cup { url }

\* lines 138-141: the loop is entered and process_urls is called
LevelStart ==
    /\ mode = "crawl"
    /\ pc = "while"
    /\ loop_condition
    /\ urls' = urls_to_scrape(current_level, visited)
    /\ tasks' = << >>
    /\ results' = << >>
    /\ ui' = 1
    /\ frontiers' = Append(frontiers, current_level)
    /\ pc' = "for_urls"
    /\ UNCHANGED << mode, base_url, max_depth, max_concurrency, visited,
                    current_level, next_level, depth, ri, site, fs, arg,
                    launched, saved, clock, last_request, delay, actor,
                    worker, grants, requests,
                    run, first_fs >>

\* lines 143-152: one iteration of the loop over the results
ProcessResult ==
    /\ mode = "crawl"
    /\ pc = "for_results"
    /\ ri <= Len(results)
    /\ LET result == results[ri]
           url    == result.url
       IN  IF url \in visited
           THEN UNCHANGED << visited, fs, saved, next_level >>
           ELSE /\ visited' = visited_add(visited, url)
                /\ fs' = write_file(fs, save_page(url, result.markdown, OutputDir))
                /\ saved' = Append(saved, [ url |-> url, markdown |-> result.markdown ])
                /\ next_level' = extend_level(next_level,
                                              filter_links(result.links, base_url),
                                              visited', current_level)
    /\ ri' = ri + 1
    /\ UNCHANGED << mode, pc, base_url, max_depth, max_concurrency,
                    current_level, depth, urls, ui, tasks, results, site, arg,
                    launched, frontiers, clock, last_request, delay, actor,
                    worker, grants, requests,
                    run, first_fs >>

\* lines 153-154: the level is complete
EndLevel ==
    /\ mode = "crawl"
    /\ pc = "for_results"
    /\ ri > Len(results)
    /\ current_level' = next_level
    /\ depth' = depth + 1
    /\ pc' = "while"
    /\ UNCHANGED << mode, base_url, max_depth, max_concurrency, visited,
                    next_level, urls, ui, tasks, results, ri, site, fs, arg,
                    launched, saved, frontiers, clock, last_request, delay, actor,
                    worker, grants, requests,
                    run, first_fs >>

\* line 138 fails: crawl_website returns
CrawlReturn ==
    /\ mode = "crawl"
    /\ pc = "while"
    /\ ~loop_condition
    /\ pc' = "done"
    /\ UNCHANGED << mode, base_url, max_depth, max_concurrency, visited,
                    current_level, next_level, depth, urls, ui, tasks, results, ri,
                    site, fs, arg, launched, saved, frontiers, clock, last_request,
                    delay, actor, worker, grants, requests,
                    run, first_fs >>

\* the variables of the rate limiter, when it is not the subject
NoLimiter ==
    /\ clock = 1
    /\ last_request = 0
    /\ delay = 0
    /\ actor = {}
    /\ worker = << >>
    /\ grants = << >>
    /\ requests = << >>

\* lines 134-136 of crawl_website, called by main (lines 175-181)
Init ==
    /\ mode = "crawl"
    /\ base_url = Seed
    /\ max_depth \in -1..MaxDepth
    /\ max_concurrency \in 0..MaxConcurrency
    /\ visited = {}
    /\ current_level = << base_url >>
    /\ depth = 0
    /\ pc = "while"
    /\ next_level = << >>
    /\ urls = << >>
    /\ ui = 1
    /\ tasks = << >>
    /\ results = << >>
    /\ ri = 1
    /\ site = << >>
    /\ fs = << >>
    /\ arg = << >>
    /\ launched = << >>
    /\ saved = << >>
    /\ frontiers = << >>
    /\ run = 1
    /\ first_fs = << >>
    /\ NoLimiter

Next ==
    \/ LevelStart
    \/ Launch
    \/ \E i \in 1..Len(tasks) : ScrapePage(i)
    \/ WaitOne
    \/ Drain
    \/ ProcessResult
    \/ EndLevel
    \/ CrawlReturn

Spec == Init /\ [][Next]_vars

\* lines 143-152 seen on the loop index alone: the step ProcessResult takes
NextResult ==
    /\ mode = "crawl"
    /\ pc = "for_results"
    /\ ri <= Len(results)
    /\ ri' = ri + 1

\* the other statements of crawl_website and process_urls, run by the main thread
MainThread ==
    \/ LevelStart
    \/ Launch
    \/ WaitOne
    \/ Drain
    \/ EndLevel
    \/ CrawlReturn

\* The main thread runs on whenever it is not blocked in ray.wait or ray.get,
\* and every launched scrape_page task completes (requests.get has a timeout,
\* line 39, and every exception is caught, line 47).
SpecFair ==
    /\ Init /\ [][Next]_vars
    /\ WF_vars(MainThread)
    /\ WF_ri(NextResult)
    /\ WF_vars(\E i \in 1..Len(tasks) : ScrapePage(i))

----------------------------------------------------------------------------
(* crawl_website run a second time with the same arguments *)

\* main is started again with the arguments of the first run (lines 175-181):
\* lines 134-136 run anew; the site answers as before and output_dir holds the
\* files the first run left
Rerun ==
    /\ mode = "crawl"
    /\ pc = "done"
    /\ run = 1
    /\ run' = 2
    /\ first_fs' = fs
    /\ visited' = {}
    /\ current_level' = << base_url >>
    /\ depth' = 0
    /\ pc' = "while"
    /\ next_level' = << >>
    /\ urls' = << >>
    /\ ui' = 1
    /\ tasks' = << >>
    /\ results' = << >>
    /\ ri' = 1
    /\ launched' = << >>
    /\ saved' = << >>
    /\ frontiers' = << >>
    /\ UNCHANGED << mode, base_url, max_depth, max_concurrency, site, fs, arg,
                    clock, last_request, delay, actor, worker, grants, requests >>

NextRerun ==
    \/ Next
    \/ Rerun

SpecRerun == Init /\ [][NextRerun]_vars

----------------------------------------------------------------------------
(* process_urls called on its own, with any list of URLs *)

UrlB == << "http", ":", "/", "/", "h", "/", "b" >>

\* the sequences over S of length at most n
SeqsUpTo(S, n) == UNION { [ 1..k -> S ] : k \in 0..n }

\* the state at line 118-119 of process_urls(urls, rate_limiter, max_concurrency);
\* --max_concurrency is any integer (lines 165-166)
InitDispatch ==
    /\ mode = "dispatch"
    /\ urls \in SeqsUpTo({ Seed, UrlB }, MaxUrls)
    /\ max_concurrency \in -1..MaxConcurrency
    /\ tasks = << >>
    /\ results = << >>
    /\ ui = 1
    /\ pc = "for_urls"
    /\ base_url = << >>
    /\ max_depth = 0
    /\ visited = {}
    /\ current_level = << >>
    /\ next_level = << >>
    /\ depth = 0
    /\ ri = 1
    /\ site = << >>
    /\ fs = << >>
    /\ arg = << >>
    /\ launched = << >>
    /\ saved = << >>
    /\ frontiers = << >>
    /\ run = 1
    /\ first_fs = << >>
    /\ NoLimiter

NextDispatch ==
    \/ Launch
    \/ \E i \in 1..Len(tasks) : ScrapePage(i)
    \/ WaitOne
    \/ Drain

SpecDispatch == InitDispatch /\ [][NextDispatch]_vars

\* process_urls runs on whenever it is not blocked in ray.wait or ray.get, and
\* every launched scrape_page task completes
SpecDispatchFair ==
    /\ InitDispatch /\ [][NextDispatch]_vars
    /\ WF_vars(Launch \/ WaitOne \/ Drain)
    /\ WF_vars(\E i \in 1..Len(tasks) : ScrapePage(i))

----------------------------------------------------------------------------
(* save_page called on its own, with any URL *)

Hosts == { << "h" >>, << "h", ":", "8" >>, << "docs.example.com" >> }

\* lists of non-empty path segments
SegmentLists ==
    { << >>,
      << << "a" >> >>,
      << << "a" >>, << "b" >> >>,
      << << "a", "*", "b" >>, << "c", "_", "d" >> >>,
      << << "a", ";", "v" >>, << "b" >>, << "c" >> >>,
      << << "stream" >>, << "deploy-cloud" >> >>,
      << << "stream" >>, << "4.7" >>, << "upgrading-workers" >> >> }

ParamsSet == { << >>, << "v" >> }

Queries == { << >>, << "q" >>, << "q", "/", "r" >> }

Fragments == { << >>, << "f" >>, << "f", "/", "g" >>, << "pricing" >> }

Markdowns == { << >>, md(<< "html" >>) }

RECURSIVE SlashJoin(_)
\* "/" + seg for every segment
SlashJoin(segs) ==
    IF segs = << >> THEN << >> ELSE << "/" >> \o segs[1] \o SlashJoin(Tail(segs))

\* the text of the URL with the given components
BuildUrl(host, segs, slash, params, query, fragment) ==
    << "https", ":", "/", "/" >> \o host \o SlashJoin(segs)
    \o (IF slash THEN << "/" >> ELSE << >>)
    \o (IF params # << >> THEN << ";" >> \o params ELSE << >>)
    \o (IF query # << >> THEN << "?" >> \o query ELSE << >>)
    \o (IF fragment # << >> THEN << "#" >> \o fragment ELSE << >>)

\* the arguments of save_page(url, markdown_content, output_dir)
InitSave ==
    /\ mode = "save"
    /\ pc = "call"
    /\ \E host \in Hosts, segs \in SegmentLists, slash \in BOOLEAN, params \in ParamsSet,
          query \in Queries, fragment \in Fragments, markdown \in Markdowns :
         /\ (params # << >> => (segs # << >> \/ slash))
         /\ arg = [ host |-> host, segs |-> segs, slash |-> slash, params |-> params,
                    query |-> query, fragment |-> fragment, markdown |-> markdown,
                    url |-> BuildUrl(host, segs, slash, params, query, fragment) ]
    /\ base_url = << >>
    /\ max_depth = 0
    /\ max_concurrency = 0
    /\ visited = {}
    /\ current_level = << >>
    /\ next_level = << >>
    /\ depth = 0
    /\ urls = << >>
    /\ ui = 1
    /\ tasks = << >>
    /\ results = << >>
    /\ ri = 1
    /\ site = << >>
    /\ fs = << >>
    /\ launched = << >>
    /\ saved = << >>
    /\ frontiers = << >>
    /\ run = 1
    /\ first_fs = << >>
    /\ NoLimiter

\* lines 81-110: save_page runs
SavePage ==
    /\ mode = "save"
    /\ pc = "call"
    /\ fs' = write_file(fs, save_page(arg.url, arg.markdown, OutputDir))
    /\ saved' = Append(saved, [ url |-> arg.url, markdown |-> arg.markdown ])
    /\ pc' = "returned"
    /\ UNCHANGED << mode, base_url, max_depth, max_concurrency, visited,
                    current_level, next_level, depth, urls, ui, tasks, results, ri,
                    site, arg, launched, frontiers, clock, last_request,
                    delay, actor, worker, grants, requests,
                    run, first_fs >>

NextSave == SavePage

SpecSave == InitSave /\ [][NextSave]_vars

----------------------------------------------------------------------------
(* RateLimiter, shared by concurrently running scrape_page tasks.            *)
(* Time is counted in ticks of the clock.  The straight-line statements of   *)
(* acquire take no tick; time passes while acquire sleeps, while a call      *)
(* waits for the actor, and between the steps of a task.                     *)

\* the number of scrape_page tasks that run concurrently
Workers == 3

\* the last tick at which the clock advances with no call asleep
MaxClock == 3

\* the largest --rate_limit explored, in ticks
MaxDelay == 2

\* wake_time that sleeps for delay + elapsed
wake_time_long(now, last, d) == IF now - last < d THEN now + (d + (now - last)) ELSE now

\* wake_time that sleeps for elapsed instead of delay - elapsed
wake_time_elapsed(now, last, d) == IF now - last < d THEN now + (now - last) ELSE now

\* lines 23-25: the time acquire resumes at, having read now
wake_time(now, last, d) == IF now - last < d THEN now + (d - (now - last)) ELSE now

\* line 12: a Ray actor executes one method call at a time
actor_free == actor = {}

\* main lines 172-173 (RateLimiter.remote(rate_limit), rate_limit > 0), lines
\* 14-16, and the tasks scrape_page.remote(url, rate_limiter) of one level
InitLimiter ==
    /\ mode = "limiter"
    /\ pc = "tasks"
    /\ delay \in 1..MaxDelay
    /\ last_request = 0
    /\ clock = 1
    /\ actor = {}
    /\ worker = [ w \in 1..Workers |-> "start" ]
    /\ grants = << >>
    /\ requests = << >>
    /\ base_url = << >>
    /\ max_depth = 0
    /\ max_concurrency = Workers
    /\ visited = {}
    /\ current_level = << >>
    /\ next_level = << >>
    /\ depth = 0
    /\ urls = << >>
    /\ ui = 1
    /\ tasks = << >>
    /\ results = << >>
    /\ ri = 1
    /\ site = << >>
    /\ fs = << >>
    /\ arg = << >>
    /\ launched = << >>
    /\ saved = << >>
    /\ frontiers = << >>
    /\ run = 1
    /\ first_fs = << >>

notLimiter == << mode, pc, base_url, max_depth, max_concurrency, visited,
                 current_level, next_level, depth, urls, ui, tasks, results, ri,
                 site, fs, arg, launched, saved, frontiers, run, first_fs >>

\* line 38: rate_limiter.acquire.remote() is sent; the task waits in ray.get
CallAcquire(w) ==
    /\ mode = "limiter"
    /\ worker[w] = "start"
    /\ worker' = [ worker EXCEPT ![w] = "waiting" ]
    /\ UNCHANGED << clock, last_request, delay, actor, grants, requests >>
    /\ UNCHANGED notLimiter

\* lines 19-20 and 23-25: the actor starts a waiting call, reads the clock and
\* either sees that no request was made yet or goes to sleep
AcquireEnter(w) ==
    /\ mode = "limiter"
    /\ worker[w] = "waiting"
    /\ actor_free
    /\ \A c \in actor : c.caller # w
    /\ actor' = actor \cup
                { [ caller |-> w, first |-> (last_request = 0), now |-> clock,
                    wake |-> IF last_request = 0 THEN clock
                             ELSE wake_time(clock, last_request, delay) ] }
    /\ UNCHANGED << clock, last_request, delay, worker, grants, requests >>
    /\ UNCHANGED notLimiter

\* lines 21-22, or the end of the sleep and line 26: the timestamp is set and
\* acquire returns to its caller
AcquireReturn(c) ==
    /\ mode = "limiter"
    /\ c \in actor
    /\ clock >= c.wake
    /\ last_request' = IF c.first THEN c.now ELSE clock
    /\ actor' = actor \ { c }
    /\ worker' = [ worker EXCEPT ![c.caller] = "granted" ]
    /\ grants' = Append(grants, [ caller |-> c.caller, time |-> clock, first |-> c.first ])
    /\ UNCHANGED << clock, delay, requests >>
    /\ UNCHANGED notLimiter

\* line 39: requests.get(url) starts
Request(w) ==
    /\ mode = "limiter"
    /\ worker[w] = "granted"
    /\ worker' = [ worker EXCEPT ![w] = "requested" ]
    /\ requests' = Append(requests, [ caller |-> w, time |-> clock ])
    /\ UNCHANGED << clock, last_request, delay, actor, grants >>
    /\ UNCHANGED notLimiter

\* time passes, unless a call of acquire is at a statement that takes no time
\* (a call in time.sleep may sleep longer than it asked for); past MaxClock
\* time passes only to end a sleep
Tick ==
    /\ mode = "limiter"
    /\ clock < MaxClock \/ \E c \in actor : c.wake > clock
    /\ \A c \in actor : c.wake > c.now
    /\ clock' = clock + 1
    /\ UNCHANGED << last_request, delay, actor, worker, grants, requests >>
    /\ UNCHANGED notLimiter

NextLimiter ==
    \/ \E w \in 1..Workers : CallAcquire(w)
    \/ \E w \in 1..Workers : AcquireEnter(w)
    \/ \E c \in actor : AcquireReturn(c)
    \/ \E w \in 1..Workers : Request(w)
    \/ Tick

SpecLimiter == InitLimiter /\ [][NextLimiter]_vars

\* The actor starts a queued call when it is free and runs the call it has
\* started; time passes.
SpecLimiterFair ==
    /\ InitLimiter /\ [][NextLimiter]_vars
    /\ \A w \in 1..Workers : WF_vars(AcquireEnter(w))
    /\ WF_vars(\E c \in actor : AcquireReturn(c))
    /\ WF_vars(Tick)

----------------------------------------------------------------------------
(* Properties *)

NoDuplicates(s) == \A i, j \in 1..Len(s) : i # j => s[i] # s[j]

Count(s, x) == Cardinality({ i \in 1..Len(s) : s[i] = x })

SavedUrls == [ i \in 1..Len(saved) |-> saved[i].url ]

ResultUrls == [ i \in 1..Len(results) |-> results[i].url ]

UrlF == << "http", ":", "/", "/", "h", "/", "a", "#", "f" >>

\* C1: in one run of crawl_website scrape_page is launched at most once for
\* each distinct URL, whatever the link graph, max_depth and the completion
\* order; every visited.add adds a URL that was not visited, and the visited
\* set never loses a URL.
C1_FetchedOnce ==
    /\ [](/\ NoDuplicates(launched)
          /\ NoDuplicates(SavedUrls)
          /\ Range(SavedUrls) = visited)
    /\ [][visited \subseteq visited']_vars

\* C1 witness: a finished crawl of four pages in which a page linked back to
\* the seed and one page held the same link twice.
C1_Witness ==
    /\ mode = "crawl" /\ pc = "done"
    /\ Len(launched) = 4
    /\ \E u \in DOMAIN site :
         site[u].error = "none" /\ site[u].links = << hrefSelf, hrefC, hrefC >>

\* C2: for max_concurrency >= 1 the number of tasks launched and not yet
\* collected never exceeds max_concurrency.
C2_ConcurrencyBound == max_concurrency >= 1 => Len(tasks) <= max_concurrency

\* C2 witness: the window is full while URLs remain to be launched.
C2_Witness ==
    /\ mode = "dispatch" /\ pc = "wait"
    /\ max_concurrency = 2 /\ Len(tasks) = 2
    /\ ui <= Len(urls)

\* C3: process_urls returns one PageResult per element of urls, the results'
\* URLs being the input URLs as a multiset, in any order, whether fetches fail
\* or not.
C3_OneResultPerUrl ==
    (mode = "dispatch" /\ pc = "returned") =>
        /\ Len(results) = Len(urls)
        /\ \A u \in Range(urls) \cup Range(ResultUrls) : Count(ResultUrls, u) = Count(urls, u)
        /\ \A i \in 1..Len(results) :
             /\ results[i].url \in DOMAIN site
             /\ site[results[i].url].error = "none" =>
                  results[i].markdown = md(site[results[i].url].text)
             /\ site[results[i].url].error # "none" => results[i].markdown = << >>

\* C3 witness: a list with a repeated URL returned out of input order, one
\* of the fetches having failed and two tasks having been left to the final
\* ray.get.
C3_Witness ==
    /\ mode = "dispatch" /\ pc = "returned"
    /\ max_concurrency = 3
    /\ Len(urls) = 3 /\ ~NoDuplicates(urls)
    /\ ResultUrls # urls
    /\ \E u \in DOMAIN site : site[u].error = "timeout"

\* C4: URLs are fetched only while depth <= max_depth: every launched URL
\* belongs to the frontier of a depth <= max_depth, when the crawl ends every
\* URL of those frontiers was fetched and saved, and the links left over in the
\* frontier of depth max_depth + 1 were never fetched.
C4_DepthBound ==
    /\ Len(frontiers) <= max_depth + 1
    /\ \A i \in 1..Len(launched) :
         \E d \in 0..max_depth :
            d + 1 <= Len(frontiers) /\ launched[i] \in Range(frontiers[d + 1])
    /\ (tasks # << >> \/ pc \in { "for_urls", "wait" }) => depth <= max_depth
    /\ pc = "done" =>
         /\ \A d \in 1..Len(frontiers) : \A u \in Range(frontiers[d]) :
               u \in Range(launched) /\ u \in Range(SavedUrls)
         /\ \A u \in Range(current_level) : u \notin Range(launched)

\* C4 witness: with max_depth = 2 the crawl ended after the third level with
\* links collected from the pages of depth 2 left unfetched.
C4_Witness ==
    /\ mode = "crawl" /\ pc = "done"
    /\ max_depth = 2 /\ depth = 3
    /\ Len(frontiers) = 3
    /\ current_level # << >>

\* the time between two entries of a log
Gap(a, b) == IF a.time >= b.time THEN a.time - b.time ELSE b.time - a.time

\* C5: the calls of acquire are executed one at a time, two consecutive
\* grants are at least delay apart, and at most one call ever takes the
\* "no previous request" branch.
C5_GrantsSpaced ==
    /\ Cardinality(actor) <= 1
    /\ \A i \in 1..(Len(grants) - 1) : grants[i + 1].time - grants[i].time >= delay
    /\ Cardinality({ i \in 1..Len(grants) : grants[i].first }) <= 1

\* C5 witness: three tasks called acquire before the first grant, all were
\* granted, the second exactly delay after the first.
C5_Witness ==
    /\ mode = "limiter"
    /\ delay = 2
    /\ Len(grants) = 3
    /\ grants[2].time - grants[1].time = delay
    /\ requests = << >>

\* C6: any two HTTP requests of the crawl start at least rate_limit apart.
C6_RequestsSpaced ==
    \A i, j \in 1..Len(requests) : i # j => Gap(requests[i], requests[j]) >= delay

\* every URL that is or was in a frontier, or was handed to process_urls
FrontierUrls ==
    Range(current_level) \cup Range(next_level) \cup Range(urls) \cup Range(launched)
    \cup UNION { Range(frontiers[d]) : d \in 1..Len(frontiers) }

\* the hrefs extracted from the pages fetched so far
ExtractedHrefs ==
    UNION { Range(scrape_page(u, site[u]).links) : u \in DOMAIN site }

\* the text of u starts with the scheme and host of the seed, and the host ends there
OnSeedHost(u) ==
    /\ Len(u) >= 5
    /\ \A i \in 1..5 : u[i] = base_url[i]
    /\ Len(u) > 5 => u[6] \in { "/", "?", "#" }

\* C7: every URL in a frontier other than the seed is an extracted href
\* resolved against the seed URL and is on the seed's host, whatever page the
\* href was found on.
C7_DomainFilter ==
    mode = "crawl" =>
        /\ \A u \in FrontierUrls \ { base_url } : OnSeedHost(u)
        /\ (FrontierUrls \ { base_url }) \subseteq
               { urljoin(base_url, h) : h \in ExtractedHrefs }

\* C7 witness: a page other than the seed held a link to another host and the
\* fragment link "#f", which was fetched as the seed's fragment.
C7_Witness ==
    /\ mode = "crawl" /\ pc = "done"
    /\ UrlB \in DOMAIN site
    /\ site[UrlB].error = "none" /\ site[UrlB].links = << hrefB, hrefF >>
    /\ site[Seed].links = << hrefB, hrefOther >>
    /\ UrlF \in visited

\* the pages whose fetch failed
Failed == { u \in DOMAIN site : site[u].error # "none" }

\* C8: a failure inside scrape_page yields a PageResult with the URL, empty
\* markdown and no links; the URL is fetched once, and when its level is
\* complete it is visited and saved once with empty markdown, as is every
\* other URL of that level; the crawl ends only by its loop condition.
C8_FailureContained ==
    mode = "crawl" =>
        /\ \A u \in Failed :
             /\ Count(launched, u) = 1
             /\ \A i \in 1..Len(tasks) :
                  (tasks[i].url = u /\ tasks[i].state = "done") =>
                      tasks[i].result = [ url |-> u, markdown |-> << >>, links |-> << >> ]
             /\ \A i \in 1..Len(results) :
                  results[i].url = u =>
                      results[i] = [ url |-> u, markdown |-> << >>, links |-> << >> ]
             /\ pc \in { "while", "done" } =>
                  /\ u \in visited
                  /\ Count(saved, [ url |-> u, markdown |-> << >> ]) = 1
                  /\ Count(SavedUrls, u) = 1
                  /\ \A d \in 1..Len(frontiers) :
                       u \in Range(frontiers[d]) =>
                           \A v \in Range(frontiers[d]) : Count(SavedUrls, v) = 1
        /\ pc = "done" => ~loop_condition
        /\ pc = "done" => \A d \in 1..Len(frontiers) :
                              \A v \in Range(frontiers[d]) : Count(SavedUrls, v) = 1

\* C8 witness: a fetch of the second level failed with a non-2xx status, its
\* sibling was saved with its content and a third level was crawled.
C8_Witness ==
    /\ mode = "crawl" /\ pc = "done"
    /\ Len(frontiers) = 3
    /\ Len(frontiers[2]) = 2
    /\ \E u \in Range(frontiers[2]) : u \in Failed /\ site[u].error = "status"
    /\ \E v \in Range(frontiers[2]) : v \notin Failed

ExampleUrl ==
    << "https", ":", "/", "/", "docs.example.com", "/", "stream", "/", "deploy-cloud",
       "#", "pricing" >>

\* C9: save_page saves https://docs.example.com/stream/deploy-cloud#pricing to
\* <out>/docs.example.com/stream/deploy-cloud/deploy-cloud_pricing.md.
C9_FragmentExample ==
    (mode = "save" /\ pc = "returned" /\ arg.url = ExampleUrl) =>
        DOMAIN fs = { << "out", "/", "docs.example.com", "/", "stream", "/",
                         "deploy-cloud", "/", "deploy-cloud", "_", "pricing", ".md" >> }

\* the replacement of \ / * ? : " < > | by _
Sanitized(name) ==
    [ i \in 1..Len(name) |->
        IF name[i] \in { "\\", "/", "*", "?", ":", "\"", "<", ">", "|" } THEN "_"
        ELSE name[i] ]

RECURSIVE UnderDir(_, _)
\* dir/P[1]/.../P[n], each sanitized
UnderDir(dir, P) ==
    IF P = << >> THEN dir
    ELSE UnderDir(dir \o << "/" >> \o Sanitized(P[1]), Tail(P))

\* the path of the file for host H, path segments P and fragment F
ExpectedPath(H, P, F) ==
    (IF P # << >>
     THEN UnderDir(OutputDir \o << "/" >> \o Sanitized(H), Take(P, Len(P) - 1))
          \o << "/" >> \o Sanitized(P[Len(P)])
     ELSE OutputDir \o << "/" >> \o Sanitized(H) \o << "/" >> \o Sanitized(H))
    \o (IF F # << >> THEN << "_" >> \o Sanitized(F) ELSE << >>)
    \o << ".md" >>

\* the non-empty '/'-separated pieces of the URL's path, the text between the
\* host and the first '?' or '#'
PathSegments(segs, slash, params) ==
    IF params = << >> THEN segs
    ELSE IF slash \/ segs = << >> THEN Append(segs, << ";" >> \o params)
    ELSE [ segs EXCEPT ![Len(segs)] = @ \o << ";" >> \o params ]

C11_SameFiles == (run = 2 /\ pc = "done") => fs = first_fs

\* the file save_page wrote for the i-th page saved
SavedFile(i) == save_page(saved[i].url, saved[i].markdown, OutputDir)

\* C19: in one crawl no two distinct visited URLs are written to the same file
\* path, and when the crawl ends the file of every saved page holds that
\* page's own header and markdown.
C19_NoCollision ==
    mode = "crawl" =>
        /\ \A i, j \in 1..Len(saved) :
              saved[i].url # saved[j].url => SavedFile(i).file_path # SavedFile(j).file_path
        /\ pc = "done" =>
              \A i \in 1..Len(saved) : fs[SavedFile(i).file_path] = SavedFile(i).content

UrlC == << "http", ":", "/", "/", "h", "/", "c" >>

\* C12: every launched task completing, crawl_website returns, on cyclic link
\* graphs too, after at most max_depth + 1 levels; depth is 0 at first and
\* grows by exactly 1 at the end of each level and at no other time; the loop
\* is left exactly when the frontier is empty or depth > max_depth.
C12_Terminates ==
    /\ <>(pc = "done")
    /\ [](/\ depth <= Max({ max_depth + 1, 0 })
          /\ Len(frontiers) <= Max({ max_depth + 1, 0 })
          /\ (pc = "while" => depth = Len(frontiers))
          /\ (pc \in { "for_urls", "wait", "for_results" } => depth = Len(frontiers) - 1)
          /\ (pc = "done" => (current_level = << >> \/ depth > max_depth)))
    /\ [][/\ depth' = depth \/ (depth' = depth + 1 /\ pc = "for_results" /\ ri > Len(results))
          /\ (pc = "while" /\ (current_level = << >> \/ depth > max_depth)) => pc' = "done"
          /\ (pc = "while" /\ pc' = "done") => (current_level = << >> \/ depth > max_depth)]_vars

\* C12 witness: on the cycle a -> c -> a the crawl ended at depth 2 of an
\* allowed 2 because the frontier was empty.
C12_Witness ==
    /\ mode = "crawl" /\ pc = "done"
    /\ max_depth = 2 /\ depth = 2
    /\ current_level = << >>
    /\ UrlC \in DOMAIN site
    /\ site[Seed].links = << hrefSelf, hrefC, hrefC >> /\ site[Seed].error = "none"
    /\ site[UrlC].links = << hrefSelf, hrefC, hrefC >> /\ site[UrlC].error = "none"

\* the URLs one link hop from u on the seed's host: the hrefs of the page
\* fetched at u, resolved as the crawl resolves them; none if the fetch failed
Hops(u) ==
    IF u \in DOMAIN site /\ site[u].error = "none"
    THEN { v \in { urljoin(base_url, h) : h \in Range(site[u].links) } : OnSeedHost(v) }
    ELSE {}

RECURSIVE BreadthFirstFrom(_, _, _)

\* the URLs at most one hop further than within, ring being the URLs of
\* within found last
Grow(within, ring) == within \cup UNION { Hops(u) : u \in ring }

\* the URLs of the frontier of depth d; none when the crawl never got there
FrontierAt(d) == IF d + 1 <= Len(frontiers) THEN Range(frontiers[d + 1]) ELSE {}

RECURSIVE BreadthFirst(_, _, _)
\* within being the URLs at most d hops from the seed and ring those at
\* exactly d hops: the frontier of every depth from d to max_depth is the set
\* of URLs at that distance, and visited is the set of URLs at most max_depth
\* hops from the seed
BreadthFirst(d, within, ring) ==
    /\ FrontierAt(d) = ring
    /\ IF d = max_depth THEN visited = within
       ELSE BreadthFirstFrom(d + 1, within, Grow(within, ring))

\* the same one hop further, grown being Grow(within, ring)
BreadthFirstFrom(d, within, grown) == BreadthFirst(d, grown, grown \ within)

\* C13: when crawl_website returns with max_depth >= 0, visited is the set of
\* URLs at most max_depth same-host link hops from the seed, a failed page
\* having no links, and the URLs fetched at each level are those whose
\* distance from the seed is that level, whatever the completion order of the
\* tasks.
C13_BreadthFirst ==
    (mode = "crawl" /\ pc = "done" /\ max_depth >= 0) =>
        /\ BreadthFirst(0, { base_url }, { base_url })
        /\ Range(launched) = visited

\* C13 witness: of the two pages one hop from the seed one failed with a
\* non-2xx status, the other was processed before its turn in the frontier,
\* and /c, two hops away, was fetched at the third level.
C13_Witness ==
    /\ mode = "crawl" /\ pc = "done"
    /\ max_depth = 2
    /\ Len(frontiers) = 3
    /\ Len(frontiers[2]) = 2
    /\ \E u \in Range(frontiers[2]) : site[u].error = "status"
    /\ SavedUrls[2] = frontiers[2][2]
    /\ UrlC \in Range(frontiers[3])

\* C14: process_urls returns only when every task it launched has completed
\* and been collected; crawl_website changes visited or next_level, or saves a
\* page, only while no task is running, and launches a fetch of a level only
\* when every URL of the earlier levels has been processed.
C14_Barrier ==
    /\ [](mode = "crawl" =>
            /\ pc \in { "for_results", "while", "done" } => tasks = << >>
            /\ pc = "for_results" =>
                  /\ Len(results) = Len(urls)
                  /\ \A u \in Range(urls) : Count(ResultUrls, u) = Count(urls, u))
    /\ [][(visited' # visited \/ next_level' # next_level \/ saved' # saved \/ fs' # fs) =>
              /\ \A i \in 1..Len(tasks) : tasks[i].state = "done"
              /\ tasks' = << >>]_vars
    /\ [][launched' # launched =>
              \A d \in 1..(Len(frontiers) - 1) :
                  Range(frontiers[d]) \subseteq (visited \cap Range(SavedUrls))]_vars

\* C14 witness: at depth 1 the window of two tasks was drained and the first
\* of the two results has been processed.
C14_Witness ==
    /\ mode = "crawl" /\ pc = "for_results"
    /\ depth = 1
    /\ max_concurrency = 3
    /\ Len(results) = 2 /\ ri = 2
    /\ Len(saved) = 2

\* the links of a result on the seed's host, in the order of the page
SameHostLinks(result) ==
    SelectSeq([ i \in 1..Len(result.links) |-> urljoin(base_url, result.links[i]) ],
              OnSeedHost)

RECURSIVE Discovered(_)
\* the links of the first k results of the level, in the order of processing
Discovered(k) ==
    IF k = 0 THEN << >> ELSE Discovered(k - 1) \o SameHostLinks(results[k])

RECURSIVE FirstSeen(_, _)
\* the elements of s outside known, each at its first occurrence
FirstSeen(s, known) ==
    IF s = << >> THEN << >>
    ELSE IF s[1] \in known THEN FirstSeen(Tail(s), known)
    ELSE << s[1] >> \o FirstSeen(Tail(s), known \cup { s[1] })

\* the URLs of the frontiers up to the current level
LevelUrls == UNION { Range(frontiers[d]) : d \in 1..Len(frontiers) }

\* C15: no frontier holds a URL twice, and next_level lists the URLs that are
\* in no frontier so far in first-seen order: in the order the results of the
\* level are processed and, within a page, in the order of its links.
C15_FirstSeenOrder ==
    mode = "crawl" =>
        /\ NoDuplicates(current_level)
        /\ NoDuplicates(next_level)
        /\ \A d \in 1..Len(frontiers) : NoDuplicates(frontiers[d])
        /\ pc = "for_results" => next_level = FirstSeen(Discovered(ri - 1), LevelUrls)
        /\ (pc = "while" /\ depth > 0) =>
              current_level = FirstSeen(Discovered(Len(results)), LevelUrls)

\* C15 witness: the two results of depth 1 were processed against the order
\* of the frontier and each gave one new URL, one of them linked twice.
C15_Witness ==
    /\ mode = "crawl" /\ pc = "for_results"
    /\ depth = 1
    /\ Len(results) = 2 /\ ri = 3
    /\ ResultUrls # urls
    /\ Len(next_level) = 2
    /\ \E i \in 1..2 : results[i].links = << hrefSelf, hrefC, hrefC >>

\* C16: save_page is called for a URL only when the URL is in visited, having
\* been added by the same iteration, and at most once per URL; the file it
\* writes exists from then on; at the end of every level the URLs saved so far
\* are the visited set.
C16_SavedAreVisited ==
    /\ [](mode = "crawl" =>
            /\ NoDuplicates(SavedUrls)
            /\ Range(SavedUrls) \subseteq visited
            /\ \A i \in 1..Len(saved) : SavedFile(i).file_path \in DOMAIN fs
            /\ pc \in { "while", "done" } => Range(SavedUrls) = visited)
    /\ [][saved' # saved =>
              /\ Len(saved') = Len(saved) + 1
              /\ saved'[Len(saved')].url \in visited' \ visited
              /\ saved'[Len(saved')].url \notin Range(SavedUrls)]_vars

\* C16 witness: two levels are complete, three pages are saved and visited,
\* and a third level is about to start.
C16_Witness ==
    /\ mode = "crawl" /\ pc = "while"
    /\ depth = 2 /\ max_depth = 2
    /\ Len(saved) = 3
    /\ Cardinality(visited) = 3
    /\ current_level # << >>

\* C17: every call of acquire returns, however many tasks call it at once:
\* each task calling once, from some time on no call is pending; the first
\* call to run does not sleep, and every later call asks time.sleep for at
\* most delay.
C17_AcquireReturns ==
    /\ <>[](\A w \in 1..Workers : worker[w] # "waiting")
    /\ [](\A c \in actor :
            /\ c.first => c.wake = c.now
            /\ c.wake >= c.now
            /\ c.wake - c.now <= delay)
    /\ [](grants # << >> => grants[1].first)

\* C17 witness: every task was granted and made its request, the third
\* grant two delays after the first.
C17_Witness ==
    /\ mode = "limiter"
    /\ delay = 1
    /\ Len(grants) = Workers
    /\ grants[3].time - grants[1].time = 2 * delay
    /\ Len(requests) = Workers

\* C18: at the start of every level current_level holds no visited URL and no
\* URL twice, so urls_to_scrape is current_level itself; no result met by the
\* loop over the results has a visited URL, so none is discarded and every
\* PageResult process_urls returned is saved.
C18_NothingDiscarded ==
    mode = "crawl" =>
        /\ pc = "while" =>
              /\ Range(current_level) \cap visited = {}
              /\ NoDuplicates(current_level)
              /\ urls_to_scrape(current_level, visited) = current_level
        /\ pc \in { "for_urls", "wait", "for_results" } => urls = current_level
        /\ pc = "for_results" =>
              /\ NoDuplicates(ResultUrls)
              /\ \A i \in ri..Len(results) : results[i].url \notin visited
              /\ \A i \in 1..(ri - 1) :
                    [ url |-> results[i].url, markdown |-> results[i].markdown ] \in Range(saved)

\* C18 witness: a page of depth 1 linked back to the seed, and all results of
\* the level were saved.
C18_Witness ==
    /\ mode = "crawl" /\ pc = "for_results"
    /\ depth = 1
    /\ ri > Len(results)
    /\ Len(results) = 2
    /\ Len(saved) = 3
    /\ \E i \in 1..2 : hrefSelf \in Range(results[i].links)
    /\ base_url \notin Range(next_level)

\* C20: with max_concurrency <= 0 process_urls returns, skips no URL and
\* launches the URLs one at a time: each launch is followed by the wait for
\* that task, at most one task is outstanding, and one result per URL is
\* returned, in the order of the URLs.
C20_NonPositiveCap ==
    /\ <>(pc = "returned")
    /\ [](max_concurrency <= 0 =>
            /\ Len(tasks) <= 1
            /\ pc = "for_urls" => tasks = << >>
            /\ pc = "wait" => Len(tasks) = 1 /\ tasks[1].url = urls[ui - 1]
            /\ Len(results) + Len(tasks) = ui - 1
            /\ launched = Take(urls, ui - 1)
            /\ pc = "returned" => (Len(results) = Len(urls) /\ ResultUrls = urls))

\* C20 witness: with max_concurrency = -1 three URLs, one of them twice, were
\* fetched and returned, one fetch having failed.
C20_Witness ==
    /\ mode = "dispatch" /\ pc = "returned"
    /\ max_concurrency = -1
    /\ Len(urls) = 3 /\ ~NoDuplicates(urls)
    /\ Len(results) = 3
    /\ \E u \in DOMAIN site : site[u].error = "network"

====
